---- MODULE Spec2Model ----
(***************************************************************************)
(* picoforge, src-tauri/src/fido/mod.rs: the FIDO back end.                *)
(*                                                                         *)
(* The four top-level operations read_device_details, write_config,        *)
(* get_credentials and delete_credential are modelled as one action each.  *)
(* An action takes the call's arguments (args) and the answers the device  *)
(* gives to the exchanges of that call (dev), and leaves the result, the   *)
(* device I/O the call performed (io), the user-entity id handed to        *)
(* make_credential (blob) and the number of device handles still open.     *)
(*                                                                         *)
(* Strings that the code converts (hex strings) are sequences of           *)
(* one-character strings; byte vectors are sequences of 0..255;            *)
(* Option<T> is <<>> (None) or <<v>> (Some(v)).                            *)
(***************************************************************************)
EXTENDS Integers, Sequences, FiniteSets, TLC

VARIABLES pc, op, args, dev, result, io, blob, openHandles

vars == <<pc, op, args, dev, result, io, blob, openHandles>>

(***************************************************************************)
(* Option, Result                                                          *)
(***************************************************************************)
None == <<>>
Some(v) == <<v>>
IsSome(o) == o # <<>>
UnwrapOr(o, d) == IF o = <<>> THEN d ELSE o[1]

Ok(v) == [ok |-> TRUE, value |-> v]
Err(kind, detail) == [ok |-> FALSE, kind |-> kind, detail |-> detail]

(***************************************************************************)
(* Bounds of the model                                                     *)
(***************************************************************************)
MaxNameLen == 255
MaxRps == 2
MaxCreds == 2

(***************************************************************************)
(* Bytes and hexadecimal text                                              *)
(***************************************************************************)
HexLower == <<"0","1","2","3","4","5","6","7","8","9","a","b","c","d","e","f">>
HexUpper == <<"0","1","2","3","4","5","6","7","8","9","A","B","C","D","E","F">>

IsHexDigit(c) == \E i \in 1..16 : HexLower[i] = c \/ HexUpper[i] = c
HexVal(c) == CHOOSE v \in 0..15 : HexLower[v + 1] = c \/ HexUpper[v + 1] = c

RECURSIVE Flatten(_)
Flatten(ss) == IF ss = <<>> THEN <<>> ELSE Head(ss) \o Flatten(Tail(ss))

\* hex::encode: two lower-case digits per byte, high nibble first
HexEncode(bytes) ==
  Flatten([i \in 1..Len(bytes) |->
             <<HexLower[(bytes[i] \div 16) + 1], HexLower[(bytes[i] % 16) + 1]>>])

\* hex::decode: an odd number of digits or a non-hex character is an error
HexDecode(s) ==
  IF Len(s) % 2 = 1 THEN Err("hex", "OddLength")
  ELSE IF \E i \in 1..Len(s) : ~IsHexDigit(s[i]) THEN Err("hex", "InvalidHexCharacter")
  ELSE Ok([i \in 1..(Len(s) \div 2) |-> 16 * HexVal(s[2 * i - 1]) + HexVal(s[2 * i])])

RECURSIVE DigitsValue(_, _)
DigitsValue(ds, acc) ==
  IF ds = <<>> THEN acc ELSE DigitsValue(Tail(ds), 16 * acc + HexVal(Head(ds)))

\* u16::from_str_radix(s, 16): an optional leading '+', then at least one hex
\* digit; a value above 0xFFFF overflows
FromStrRadix16(s) ==
  LET ds == IF s # <<>> /\ Head(s) = "+" THEN Tail(s) ELSE s IN
  IF s = <<>> THEN Err("Io", "cannot parse integer from empty string")
  ELSE IF ds = <<>> \/ \E i \in 1..Len(ds) : ~IsHexDigit(ds[i])
       THEN Err("Io", "invalid digit found in string")
  ELSE IF DigitsValue(ds, 0) > 65535
       THEN Err("Io", "number too large to fit in target type")
  ELSE Ok(DigitsValue(ds, 0))

(***************************************************************************)
(* write_config: the TLV encoding of an AppConfigInput                     *)
(***************************************************************************)
MyKey == <<77, 121, 75, 101, 121>>

\* A name of n bytes, all 'A' but for four bytes that read as a TLV options
\* entry (6, 2, 0, 14), placed where a reader that trusts a wrapped Length
\* byte resumes reading; a name whose Length byte does not wrap is all 'A'.
NameOfLen(n) ==
  [i \in 1..n |->
     IF n + 1 > 255 /\ i - ((n + 1) % 256) \in 1..4
     THEN <<6, 2, 0, 14>>[i - ((n + 1) % 256)]
     ELSE 65]

ProductNames == {MyKey, NameOfLen(MaxNameLen - 1), NameOfLen(MaxNameLen)}

VidStrings == {<<"2","E","8","A">>, <<"Z","Z","Z","Z">>, <<"0","0","1","f">>}
PidStrings == {<<"1","0","f","e">>}

OptionOf(S) == {None} \cup {Some(v) : v \in S}

AppConfigInputs ==
  [vid : OptionOf(VidStrings), pid : OptionOf(PidStrings),
   product_name : OptionOf(ProductNames),
   led_gpio : OptionOf({25}), led_brightness : OptionOf({255}),
   touch_timeout : OptionOf({30}), led_driver : OptionOf({1}),
   led_dimmable : OptionOf(BOOLEAN), power_cycle_on_reset : OptionOf(BOOLEAN),
   led_steady : OptionOf(BOOLEAN), enable_secp256k1 : OptionOf(BOOLEAN)]

\* `x as u8`
AsU8(x) == x % 256

\* VidPidEntry with each id written low byte first
VidPidEntry_low_byte_first(config) ==
  IF IsSome(config.vid) /\ IsSome(config.pid)
  THEN LET vid == FromStrRadix16(config.vid[1])
           pid == FromStrRadix16(config.pid[1])
       IN IF ~vid.ok THEN vid
          ELSE IF ~pid.ok THEN pid
          ELSE Ok(<<0, 4, AsU8(vid.value), AsU8(vid.value \div 256),
                    AsU8(pid.value), AsU8(pid.value \div 256)>>)
  ELSE Ok(<<>>)

\* PHY_VID = 0x0: emitted only when vid and pid are both given
VidPidEntry(config) ==
  IF IsSome(config.vid) /\ IsSome(config.pid)
  THEN LET vid == FromStrRadix16(config.vid[1])
           pid == FromStrRadix16(config.pid[1])
       IN IF ~vid.ok THEN vid
          ELSE IF ~pid.ok THEN pid
          ELSE Ok(<<0, 4, AsU8(vid.value \div 256), AsU8(vid.value),
                    AsU8(pid.value \div 256), AsU8(pid.value)>>)
  ELSE Ok(<<>>)

\* PHY_LED_GPIO = 0x4
LedGpioEntry(config) ==
  IF IsSome(config.led_gpio) THEN <<4, 1, config.led_gpio[1]>> ELSE <<>>

\* PHY_LED_BTNESS = 0x5
LedBrightnessEntry(config) ==
  IF IsSome(config.led_brightness) THEN <<5, 1, config.led_brightness[1]>> ELSE <<>>

\* PHY_UP_BUTTON = 0x8
TouchTimeoutEntry(config) ==
  IF IsSome(config.touch_timeout) THEN <<8, 1, config.touch_timeout[1]>> ELSE <<>>

\* OptsValue with the power-cycle bit set when the flag is true
OptsValue_power_cycle_not_inverted(config) ==
    (IF UnwrapOr(config.led_dimmable, FALSE) THEN 2 ELSE 0)
  + (IF UnwrapOr(config.power_cycle_on_reset, TRUE) THEN 4 ELSE 0)
  + (IF UnwrapOr(config.led_steady, FALSE) THEN 8 ELSE 0)

\* opts: the three bits are distinct, so `|=` adds the bit's value
OptsValue(config) ==
    (IF UnwrapOr(config.led_dimmable, FALSE) THEN 2 ELSE 0)
  + (IF ~UnwrapOr(config.power_cycle_on_reset, TRUE) THEN 4 ELSE 0)
  + (IF UnwrapOr(config.led_steady, FALSE) THEN 8 ELSE 0)

\* PHY_OPTS = 0x6: pushed unconditionally
OptsEntry(config) ==
  <<6, 2, AsU8(OptsValue(config) \div 256), AsU8(OptsValue(config))>>

\* PHY_ENABLED_CURVES = 0xA
CurvesEntry(config) ==
  IF UnwrapOr(config.enable_secp256k1, FALSE) THEN <<10, 4, 0, 0, 0, 8>> ELSE <<>>

\* PHY_USB_PRODUCT = 0x9
ProductNameEntry(config) ==
  IF IsSome(config.product_name)
  THEN <<9, AsU8(Len(config.product_name[1]) + 1)>> \o config.product_name[1] \o <<0>>
  ELSE <<>>

\* PHY_LED_DRIVER = 0xC
LedDriverEntry(config) ==
  IF IsSome(config.led_driver) THEN <<12, 1, config.led_driver[1]>> ELSE <<>>

\* The groups of bytes pushed onto byte_array, in the order of the pushes
\* (an empty group where the code pushes nothing).
EmittedEntries(config) ==
  <<VidPidEntry(config).value, LedGpioEntry(config), LedBrightnessEntry(config),
    TouchTimeoutEntry(config), OptsEntry(config), CurvesEntry(config),
    ProductNameEntry(config), LedDriverEntry(config)>>

byte_array(config) == Flatten(EmittedEntries(config))

\* HandlesReleasedAtReturn with the handle kept open on the error paths
HandlesReleased_on_ok_only(opened, res) == IF res.ok THEN opened ELSE 0

\* Device handles dropped when a function's scope ends: every handle the call
\* opened, on the Ok path and on every `?` path alike.
HandlesReleasedAtReturn(opened, res) == opened

\* FidoKeyHidFactory::create and make_credential_with_args answer as the
\* device decides.
WriteConfigDevices ==
  {[create |-> FALSE, make_credential |-> FALSE],
   [create |-> TRUE, make_credential |-> FALSE],
   [create |-> TRUE, make_credential |-> TRUE]}

\* The pin is handed to the library unchanged and is part of the device's answer.
write_config(config, d) ==
  IF ~VidPidEntry(config).ok
  THEN [result |-> VidPidEntry(config), io |-> <<>>, blob |-> None, opened |-> 0]
  ELSE IF ~d.create
  THEN [result |-> Err("Device", "Could not connect to FIDO device"),
        io |-> << <<"create", "failed">> >>, blob |-> None, opened |-> 0]
  ELSE IF ~d.make_credential
  THEN [result |-> Err("Device", "MakeCredential failed"),
        io |-> << <<"create", "ok">>, <<"make_credential", "Pico Keys">> >>,
        blob |-> Some(byte_array(config)), opened |-> 1]
  ELSE [result |-> Ok("Commissioned successfully!"),
        io |-> << <<"create", "ok">>, <<"make_credential", "Pico Keys">> >>,
        blob |-> Some(byte_array(config)), opened |-> 1]

Finish(name, a, d, r) ==
  /\ pc' = "returned"
  /\ op' = name
  /\ args' = a
  /\ dev' = d
  /\ result' = r.result
  /\ io' = r.io
  /\ blob' = r.blob
  /\ openHandles' = openHandles + r.opened - HandlesReleasedAtReturn(r.opened, r.result)

WriteConfig ==
  /\ pc = "idle"
  /\ \E config \in AppConfigInputs, d \in WriteConfigDevices :
      Finish("write_config", config, d, write_config(config, d))

(***************************************************************************)
(* read_device_details                                                     *)
(***************************************************************************)
\* format!("{:04X}", v) of a u16
Hex4Upper(v) ==
  <<HexUpper[(v \div 4096) + 1], HexUpper[((v \div 256) % 16) + 1],
    HexUpper[((v \div 16) % 16) + 1], HexUpper[(v % 16) + 1]>>

\* hex::encode_upper
HexEncodeUpper(bytes) ==
  Flatten([i \in 1..Len(bytes) |->
             <<HexUpper[(bytes[i] \div 16) + 1], HexUpper[(bytes[i] % 16) + 1]>>])

\* What send_cbor returns for GetInfo: an error, or bytes that from_slice
\* rejects ("garbage", which covers no bytes at all), or a CBOR value that is
\* not a map, or a map; of a map, what m.get(0x03) and m.get(0x0E) find.
\* A CBOR value is <<type, payload>>.
InfoReplies ==
  [st : {"err", "garbage", "nonmap"}, aaguid : {None}, fw : {None}]
  \cup [st : {"map"},
        aaguid : {None, Some(<<"bytes", <<171, 1>>>>), Some(<<"int", 7>>)},
        fw : {None, Some(<<"int", 258>>), Some(<<"text", "1.2">>)}]

\* The Memory/GetStats answer; a map is a BTreeMap<i128, i128>, of which
\* get(UsedSpace) and get(TotalSpace) are kept.
MemReplies ==
  [st : {"err", "empty", "garbage"}, used : {None}, total : {None}]
  \cup [st : {"map"}, used : {None, Some(2048), Some(3000)}, total : {None, Some(4096)}]

\* The PhysicalOptions/GetOptions answer; of a map, get("gpio") and
\* get("brightness").
PhyReplies ==
  [st : {"err", "empty", "garbage", "nonmap"}, gpio : {None}, brightness : {None}]
  \cup [st : {"map"}, gpio : {None, Some(<<"int", 25>>), Some(<<"text", "25">>)},
        brightness : {None, Some(<<"int", 300>>)}]

\* HidTransport::open fails, or gives a handle with the identity captured at
\* open time; then the answers to the three exchanges.
ReadDevices ==
  [open : {"NoDevice", "error"}, vid : {0}, pid : {0}, product_name : {""},
   info : {[st |-> "err", aaguid |-> None, fw |-> None]},
   mem : {[st |-> "err", used |-> None, total |-> None]},
   phy : {[st |-> "err", gpio |-> None, brightness |-> None]}]
  \cup [open : {"ok"}, vid : {11914, 171}, pid : {4350}, product_name : {"Pico Key"},
        info : InfoReplies, mem : MemReplies, phy : PhyReplies]

\* SendCbor with a failed exchange sent a second time
SendCbor_retrying(name, reply) ==
  IF reply.st = "err"
  THEN << <<"send_cbor", name>>, <<"send_cbor", name>> >>
  ELSE << <<"send_cbor", name>> >>

\* One exchange is one send_cbor call.
SendCbor(name, reply) == << <<"send_cbor", name>> >>

\* GetInfo with a transport error replaced by an answer without fields
GetInfo_tolerant(reply) ==
  IF reply.st = "err" THEN Ok([reply EXCEPT !.st = "nonmap"])
  ELSE IF reply.st = "garbage" THEN Err("Io", "CBOR parse error")
  ELSE Ok(reply)

\* info_res and info_val: a transport error and a CBOR parse error both end
\* the call.
GetInfo(reply) ==
  IF reply.st = "err" THEN Err("Device", "GetInfo failed")
  ELSE IF reply.st = "garbage" THEN Err("Io", "CBOR parse error")
  ELSE Ok(reply)

aaguid_str(info_val) ==
  IF info_val.st = "map" /\ IsSome(info_val.aaguid) /\ info_val.aaguid[1][1] = "bytes"
  THEN HexEncodeUpper(info_val.aaguid[1][2])
  ELSE <<"U","n","k","n","o","w","n">>

fw_version(info_val) ==
  IF info_val.st = "map" /\ IsSome(info_val.fw) /\ info_val.fw[1][1] = "int"
  THEN ToString((info_val.fw[1][2] \div 256) % 256) \o "."
       \o ToString(info_val.fw[1][2] % 256)
  ELSE "Unknown"

\* mem_res with `?` in the place of unwrap_or_else
mem_res_propagating(reply) ==
  IF reply.st = "err" THEN Err("Device", "Memory stats failed") ELSE Ok(reply)

\* mem_res: unwrap_or_else turns a transport error into an empty response,
\* so the exchange never ends the call.
mem_res(reply) ==
  IF reply.st = "err" THEN Ok([reply EXCEPT !.st = "empty"]) ELSE Ok(reply)

\* mem_map: an empty or unparsable response is an empty map
mem_map(res) ==
  IF res.st = "map" THEN [used |-> res.used, total |-> res.total]
  ELSE [used |-> None, total |-> None]

\* phy_res: as mem_res
phy_res(reply) ==
  IF reply.st = "err" THEN Ok([reply EXCEPT !.st = "empty"]) ELSE Ok(reply)

\* AppConfig::default()
DefaultAppConfig ==
  [vid |-> <<>>, pid |-> <<>>, product_name |-> "", led_gpio |-> 0,
   led_brightness |-> 0, led_dimmable |-> FALSE, led_steady |-> FALSE,
   power_cycle_on_reset |-> FALSE, touch_timeout |-> 0,
   enable_secp256k1 |-> FALSE, led_driver |-> 0]

\* config: the identity of the handle over the defaults, then gpio and
\* brightness where the answer is a map that holds them as integers
DeviceConfig(d, res) ==
  LET base == [DefaultAppConfig EXCEPT !.vid = Hex4Upper(d.vid),
                                       !.pid = Hex4Upper(d.pid),
                                       !.product_name = d.product_name]
      gpio == IF res.st = "map" /\ IsSome(res.gpio) /\ res.gpio[1][1] = "int"
              THEN AsU8(res.gpio[1][2]) ELSE base.led_gpio
      btn == IF res.st = "map" /\ IsSome(res.brightness) /\ res.brightness[1][1] = "int"
             THEN AsU8(res.brightness[1][2]) ELSE base.led_brightness
  IN [base EXCEPT !.led_gpio = gpio, !.led_brightness = btn]

\* The values of the Memory answer are in the range of u32, where `as u32`
\* changes nothing.
FullDeviceStatus(d, info_val, mres, pres) ==
  [info |-> [serial |-> "?",
             flash_used |-> UnwrapOr(mem_map(mres).used, 0) \div 1024,
             flash_total |-> UnwrapOr(mem_map(mres).total, 0) \div 1024,
             firmware_version |-> fw_version(info_val)],
   aaguid |-> aaguid_str(info_val),
   config |-> DeviceConfig(d, pres),
   secure_boot |-> FALSE, secure_lock |-> FALSE, method |-> "FIDO"]

read_device_details(d) ==
  LET opened == << <<"open", "ok">> >>
      io1 == opened \o SendCbor("GetInfo", d.info)
      io2 == io1 \o SendCbor("Memory/GetStats", d.mem)
      io3 == io2 \o SendCbor("PhysicalOptions/GetOptions", d.phy)
  IN
  IF d.open # "ok"
  THEN [result |-> IF d.open = "NoDevice" THEN Err("NoDevice", "")
                   ELSE Err("Device", "open failed"),
        io |-> << <<"open", "failed">> >>, blob |-> None, opened |-> 0]
  ELSE IF ~GetInfo(d.info).ok
  THEN [result |-> GetInfo(d.info), io |-> io1, blob |-> None, opened |-> 1]
  ELSE IF ~mem_res(d.mem).ok
  THEN [result |-> mem_res(d.mem), io |-> io2, blob |-> None, opened |-> 1]
  ELSE IF ~phy_res(d.phy).ok
  THEN [result |-> phy_res(d.phy), io |-> io3, blob |-> None, opened |-> 1]
  ELSE [result |-> Ok(FullDeviceStatus(d, GetInfo(d.info).value,
                                       mem_res(d.mem).value, phy_res(d.phy).value)),
        io |-> io3, blob |-> None, opened |-> 1]

ReadDeviceDetails ==
  /\ pc = "idle"
  /\ \E d \in ReadDevices :
       Finish("read_device_details", None, d, read_device_details(d))

(***************************************************************************)
(* get_credentials, delete_credential                                      *)
(***************************************************************************)
RpPool ==
  {[id |-> "example.com", name |-> "Example"],
   [id |-> "github.com", name |-> "GitHub"],
   [id |-> "pico.test", name |-> "Pico"]}

CredPool ==
  {[id |-> <<222, 173>>, user_name |-> "alice", user_display_name |-> "Alice",
    user_id |-> <<1>>],
   [id |-> <<10>>, user_name |-> "bob", user_display_name |-> "Bob",
    user_id |-> <<0, 255>>]}

SeqsUpTo(S, n) == UNION {[1..k -> S] : k \in 0..n}

\* Relying parties as the device enumerates them: no party twice
RpLists ==
  {l \in SeqsUpTo(RpPool, MaxRps) : \A i, j \in 1..Len(l) : l[i] = l[j] => i = j}

\* The answer to enumerate_credentials for one relying party
CredReplies ==
  {[ok |-> FALSE, creds |-> <<>>]}
  \cup {[ok |-> TRUE, creds |-> c] : c \in SeqsUpTo(CredPool, MaxCreds)}

CredentialDevices ==
  {[create |-> FALSE, rps_ok |-> FALSE, rps |-> <<>>, creds |-> <<>>],
   [create |-> TRUE, rps_ok |-> FALSE, rps |-> <<>>, creds |-> <<>>]}
  \cup UNION {[create : {TRUE}, rps_ok : {TRUE}, rps : {l},
               creds : [1..Len(l) -> CredReplies]] : l \in RpLists}

StoredCredential(rp, cred) ==
  [credential_id |-> HexEncode(cred.id), rp_id |-> rp.id, rp_name |-> rp.name,
   user_name |-> cred.user_name, user_display_name |-> cred.user_display_name,
   user_id |-> HexEncode(cred.user_id)]

\* EnumerateFrom with a relying party whose enumeration fails left out
RECURSIVE EnumerateFrom_skipping(_, _, _, _)
EnumerateFrom_skipping(d, i, all_credentials, sent) ==
  IF i > Len(d.rps)
  THEN [result |-> Ok(all_credentials), io |-> sent, blob |-> None, opened |-> 1]
  ELSE EnumerateFrom_skipping(d, i + 1,
         all_credentials
           \o [k \in 1..Len(d.creds[i].creds) |->
                 StoredCredential(d.rps[i], d.creds[i].creds[k])],
         sent \o << <<"enumerate_credentials", d.rps[i].id>> >>)

\* The `for rp in rps` loop from the i-th relying party on, with the
\* credentials and the device I/O gathered so far
RECURSIVE EnumerateFrom(_, _, _, _)
EnumerateFrom(d, i, all_credentials, sent) ==
  IF i > Len(d.rps)
  THEN [result |-> Ok(all_credentials), io |-> sent, blob |-> None, opened |-> 1]
  ELSE IF ~d.creds[i].ok
  THEN [result |-> Err("Failed to enumerate credentials for RP", d.rps[i].id),
        io |-> sent \o << <<"enumerate_credentials", d.rps[i].id>> >>,
        blob |-> None, opened |-> 1]
  ELSE EnumerateFrom(d, i + 1,
         all_credentials
           \o [k \in 1..Len(d.creds[i].creds) |->
                 StoredCredential(d.rps[i], d.creds[i].creds[k])],
         sent \o << <<"enumerate_credentials", d.rps[i].id>> >>)

get_credentials(d) ==
  IF ~d.create
  THEN [result |-> Err("Failed to connect to FIDO device", ""),
        io |-> << <<"create", "failed">> >>, blob |-> None, opened |-> 0]
  ELSE IF ~d.rps_ok
  THEN [result |-> Err("Failed to enumerate Relying Parties", ""),
        io |-> << <<"create", "ok">>, <<"enumerate_rps", "">> >>,
        blob |-> None, opened |-> 1]
  ELSE EnumerateFrom(d, 1, <<>>, << <<"create", "ok">>, <<"enumerate_rps", "">> >>)

GetCredentials ==
  /\ pc = "idle"
  /\ \E d \in CredentialDevices :
       Finish("get_credentials", None, d, get_credentials(d))

CredentialIdStrings ==
  {<<"d","e","a","d">>, <<"0","A">>, <<"z","z">>, <<"a","b","c">>, <<>>}

DeleteDevices ==
  {[create |-> FALSE, delete |-> FALSE],
   [create |-> TRUE, delete |-> FALSE],
   [create |-> TRUE, delete |-> TRUE]}

delete_credential(credential_id_hex, d) ==
  IF ~d.create
  THEN [result |-> Err("Failed to connect to FIDO device", ""),
        io |-> << <<"create", "failed">> >>, blob |-> None, opened |-> 0]
  ELSE IF ~HexDecode(credential_id_hex).ok
  THEN [result |-> Err("Invalid Credential ID Hex string", ""),
        io |-> << <<"create", "ok">> >>, blob |-> None, opened |-> 1]
  ELSE IF ~d.delete
  THEN [result |-> Err("Failed to delete credential", ""),
        io |-> << <<"create", "ok">>, <<"delete_credential", "public-key">> >>,
        blob |-> Some(HexDecode(credential_id_hex).value), opened |-> 1]
  ELSE [result |-> Ok("Credential deleted successfully"),
        io |-> << <<"create", "ok">>, <<"delete_credential", "public-key">> >>,
        blob |-> Some(HexDecode(credential_id_hex).value), opened |-> 1]

DeleteCredential ==
  /\ pc = "idle"
  /\ \E credential_id_hex \in CredentialIdStrings, d \in DeleteDevices :
       Finish("delete_credential", credential_id_hex, d,
              delete_credential(credential_id_hex, d))

\* The caller takes the result; the next operation starts from here.
Return ==
  /\ pc = "returned"
  /\ pc' = "idle"
  /\ op' = "none"
  /\ args' = None
  /\ dev' = None
  /\ result' = None
  /\ io' = <<>>
  /\ blob' = None
  /\ UNCHANGED openHandles

(***************************************************************************)
(* Reading a TLV blob: tag, length, value entries in sequence, as the      *)
(* firmware reads the user-entity id.  Reading stops at the end of the     *)
(* blob or at an entry that the blob cuts short.                           *)
(***************************************************************************)
RECURSIVE DecodeFrom(_, _)
DecodeFrom(bytes, i) ==
  IF i + 1 > Len(bytes) THEN <<>>
  ELSE IF i + 1 + bytes[i + 1] > Len(bytes) THEN <<>>
  ELSE <<[tag |-> bytes[i], value |-> SubSeq(bytes, i + 2, i + 1 + bytes[i + 1])]>>
       \o DecodeFrom(bytes, i + 2 + bytes[i + 1])

Decode(bytes) == DecodeFrom(bytes, 1)

\* The entries read before the first product-name entry (all, if there is none)
BeforeName(es) ==
  IF \E i \in 1..Len(es) : es[i].tag = 9
  THEN SubSeq(es, 1, (CHOOSE i \in 1..Len(es) :
                        es[i].tag = 9 /\ \A j \in 1..(i - 1) : es[j].tag # 9) - 1)
  ELSE es

\* The value of the only entry with the tag, None if there is no such entry
\* or more than one
Field(es, tag) ==
  IF Cardinality({i \in 1..Len(es) : es[i].tag = tag}) = 1
  THEN Some(es[CHOOSE i \in 1..Len(es) : es[i].tag = tag].value)
  ELSE None

Count(es, tag) == Cardinality({i \in 1..Len(es) : es[i].tag = tag})

ByteOption(o) == IF IsSome(o) THEN Some(<<o[1]>>) ELSE None

BothIds(config) == IsSome(config.vid) /\ IsSome(config.pid)

\* The options value the flags of the input stand for
FlagBits(config) ==
    (IF config.led_dimmable = Some(TRUE) THEN 2 ELSE 0)
  + (IF config.power_cycle_on_reset = Some(FALSE) THEN 4 ELSE 0)
  + (IF config.led_steady = Some(TRUE) THEN 8 ELSE 0)

NameFits(config) ==
  IsSome(config.product_name) => Len(config.product_name[1]) + 1 <= 255

Wrote == op = "write_config" /\ IsSome(blob)

Sends == SelectSeq(io, LAMBDA e : e[1] = "send_cbor")

Attempts == SelectSeq(io, LAMBDA e : e[1] \in {"open", "create"})

Exchanges ==
  << <<"send_cbor", "GetInfo">>, <<"send_cbor", "Memory/GetStats">>,
     <<"send_cbor", "PhysicalOptions/GetOptions">> >>

(***************************************************************************)
(* The claims                                                              *)
(***************************************************************************)

\* C1: delete_credential with a credential id that is not valid hex returns
\* the invalid-hex error and has done no device I/O: no connection opened,
\* no exchange, whether or not a device is plugged in.
C1_InvalidHexBeforeAnyIo ==
  (op = "delete_credential" /\ ~HexDecode(args).ok)
    => /\ result = Err("Invalid Credential ID Hex string", "")
       /\ io = <<>>

\* C2 as stated: once the device is open and GetInfo has succeeded,
\* read_device_details returns Ok whatever the two vendor exchanges do, and
\* when both fail the flash figures are 0 and every config field is at its
\* type default.
C2_AllConfigFieldsDefault ==
  (op = "read_device_details" /\ dev.open = "ok" /\ dev.info.st \in {"nonmap", "map"})
    => /\ result.ok
       /\ (dev.mem.st = "err" /\ dev.phy.st = "err")
            => /\ result.value.info.flash_used = 0
               /\ result.value.info.flash_total = 0
               /\ result.value.config = DefaultAppConfig

\* C2 amended: once the device is open and GetInfo has succeeded (the
\* exchange returned and its answer parsed), read_device_details returns Ok
\* whatever the two vendor exchanges do; a Memory answer that failed, is
\* empty or does not parse gives flash figures 0; and when both exchanges
\* fail, vid, pid and product_name are those of the opened handle and every
\* other config field is at its type default.
C2_VendorFailuresAreNotFatal ==
  (op = "read_device_details" /\ dev.open = "ok" /\ dev.info.st \in {"nonmap", "map"})
    => /\ result.ok
       /\ dev.mem.st # "map"
            => /\ result.value.info.flash_used = 0
               /\ result.value.info.flash_total = 0
       /\ (dev.mem.st = "err" /\ dev.phy.st = "err")
            => result.value.config =
                 [DefaultAppConfig EXCEPT !.vid = Hex4Upper(dev.vid),
                                          !.pid = Hex4Upper(dev.pid),
                                          !.product_name = dev.product_name]

C2_Witness ==
  /\ op = "read_device_details" /\ dev.open = "ok" /\ dev.info.st = "map"
  /\ dev.mem.st = "err" /\ dev.phy.st = "err"
  /\ result.ok /\ result.value.info.flash_total = 0
  /\ result.value.config.vid = <<"0","0","A","B">>

\* C3: when the transport cannot be opened, or the GetInfo exchange fails or
\* its answer does not parse, read_device_details returns an error and
\* neither vendor exchange has been sent.
C3_OpenAndGetInfoFailuresAreFatal ==
  (op = "read_device_details" /\ (dev.open # "ok" \/ dev.info.st \in {"err", "garbage"}))
    => /\ ~result.ok
       /\ \A i \in 1..Len(io) :
            io[i] \notin {Exchanges[2], Exchanges[3]}

C3_Witness ==
  /\ op = "read_device_details" /\ dev.open = "ok" /\ dev.info.st = "err"
  /\ result = Err("Device", "GetInfo failed")
  /\ io = << <<"open", "ok">>, Exchanges[1] >>

\* C4 as stated: reading the blob write_config built recovers exactly the
\* fields present in the input, and a field absent from the input has no
\* entry in the blob.
C4_ExactlyThePresentFields ==
  Wrote =>
    LET es == Decode(blob[1]) IN
    /\ Count(es, 0) = (IF IsSome(args.vid) \/ IsSome(args.pid) THEN 1 ELSE 0)
    /\ Count(es, 4) = Len(args.led_gpio)
    /\ Count(es, 5) = Len(args.led_brightness)
    /\ Count(es, 8) = Len(args.touch_timeout)
    /\ Count(es, 6) = (IF IsSome(args.led_dimmable) \/ IsSome(args.power_cycle_on_reset)
                          \/ IsSome(args.led_steady) THEN 1 ELSE 0)
    /\ Count(es, 10) = Len(args.enable_secp256k1)
    /\ Count(es, 9) = Len(args.product_name)
    /\ Count(es, 12) = Len(args.led_driver)
    /\ \A i \in 1..Len(es) : es[i].tag \in {0, 4, 5, 6, 8, 9, 10, 12}

\* C4 amended: reading the blob in sequence recovers: a vid/pid entry exactly
\* when vid and pid are both present (a lone vid or pid has no entry), with
\* both values big-endian; led_gpio, led_brightness and touch_timeout
\* exactly when present; one options entry always, also when all three flags
\* are absent, that carries led_dimmable = true, power_cycle_on_reset = false
\* and led_steady = true and cannot tell an absent flag from its default; a
\* curves entry exactly when enable_secp256k1 is true (false has no entry);
\* and nothing else before the product-name entry.  Without a product name,
\* led_driver follows exactly when present and nothing else.  With one, a
\* product-name entry follows; if the name has at most 254 bytes it holds the
\* bytes of the name and a NUL, led_driver follows it exactly when present,
\* and nothing else; from a longer name on the reader is out of step (C7)
\* and only the entries before the name are recovered.
C4_RoundTrip ==
  Wrote =>
    LET es == Decode(blob[1])
        pre == BeforeName(es)
        ids == Field(pre, 0)
    IN
    /\ IsSome(ids) <=> BothIds(args)
    /\ BothIds(args) =>
         /\ Len(ids[1]) = 4
         /\ 256 * ids[1][1] + ids[1][2] = FromStrRadix16(args.vid[1]).value
         /\ 256 * ids[1][3] + ids[1][4] = FromStrRadix16(args.pid[1]).value
    /\ Field(pre, 4) = ByteOption(args.led_gpio)
    /\ Field(pre, 5) = ByteOption(args.led_brightness)
    /\ Field(pre, 8) = ByteOption(args.touch_timeout)
    /\ Field(pre, 6) = Some(<<0, FlagBits(args)>>)
    /\ Field(pre, 10) = (IF args.enable_secp256k1 = Some(TRUE)
                         THEN Some(<<0, 0, 0, 8>>) ELSE None)
    /\ Len(pre) = (IF BothIds(args) THEN 1 ELSE 0) + Len(args.led_gpio)
                  + Len(args.led_brightness) + Len(args.touch_timeout) + 1
                  + (IF args.enable_secp256k1 = Some(TRUE) THEN 1 ELSE 0)
                  + (IF IsSome(args.product_name) THEN 0 ELSE Len(args.led_driver))
    /\ args.product_name = None =>
         /\ es = pre
         /\ Field(es, 12) = ByteOption(args.led_driver)
    /\ IsSome(args.product_name) =>
         /\ Len(es) > Len(pre)
         /\ es[Len(pre) + 1].tag = 9
    /\ (IsSome(args.product_name) /\ NameFits(args)) =>
         /\ Field(es, 9) = Some(args.product_name[1] \o <<0>>)
         /\ Field(es, 12) = ByteOption(args.led_driver)
         /\ Len(es) = Len(pre) + 1 + Len(args.led_driver)

C4_Witness ==
  /\ Wrote
  /\ BothIds(args) /\ args.product_name = Some(MyKey) /\ IsSome(args.led_driver)
  /\ args.led_gpio = None /\ args.enable_secp256k1 = Some(FALSE)
  /\ Len(Decode(blob[1])) = 4

\* C5: write_config with a vid or a pid that is not valid hexadecimal returns
\* an error and has done no device I/O: no connection, no make_credential.
C5_BadIdsRejectedBeforeAnyIo ==
  (/\ op = "write_config"
   /\ \/ IsSome(args.vid) /\ \E i \in 1..Len(args.vid[1]) : ~IsHexDigit(args.vid[1][i])
      \/ IsSome(args.pid) /\ \E i \in 1..Len(args.pid[1]) : ~IsHexDigit(args.pid[1][i]))
    => ~result.ok /\ io = <<>>

\* C6: every blob write_config builds holds exactly one options entry, tag
\* 0x06 and length 2, also when all three flags are absent or default: one
\* group of bytes is pushed with that tag, and it is the one entry with tag
\* 0x06 a reader finds before the product name; its big-endian value has bit
\* 0x02 iff led_dimmable is true, bit 0x04 iff power_cycle_on_reset is false,
\* bit 0x08 iff led_steady is true, and no other bit.
C6_OneOptionsEntry ==
  Wrote =>
    LET pre == BeforeName(Decode(blob[1]))
        v == 256 * Field(pre, 6)[1][1] + Field(pre, 6)[1][2]
    IN
    /\ Cardinality({k \in DOMAIN EmittedEntries(args) :
                      EmittedEntries(args)[k] # <<>> /\ EmittedEntries(args)[k][1] = 6}) = 1
    /\ Count(pre, 6) = 1
    /\ Len(Field(pre, 6)[1]) = 2
    /\ ((v \div 2) % 2 = 1) <=> (args.led_dimmable = Some(TRUE))
    /\ ((v \div 4) % 2 = 1) <=> (args.power_cycle_on_reset = Some(FALSE))
    /\ ((v \div 8) % 2 = 1) <=> (args.led_steady = Some(TRUE))
    /\ v % 2 = 0 /\ v < 16

C6_Witness ==
  /\ Wrote
  /\ args.led_dimmable = None /\ args.power_cycle_on_reset = None
  /\ args.led_steady = None
  /\ Field(Decode(blob[1]), 6) = Some(<<0, 0>>)

\* C7: for every product name in the input the blob holds 0x09, Length, the
\* bytes of the name, 0x00, where Length is the length of the name plus one,
\* the number of value bytes that follow it, for a name of any length.
C7_NameLengthByte ==
  (Wrote /\ IsSome(args.product_name)) =>
    LET name == args.product_name[1]
        at == Len(blob[1]) - 3 * Len(args.led_driver) - Len(name) - 2
    IN
    /\ blob[1][at] = 9
    /\ blob[1][at + 1] = Len(name) + 1
    /\ SubSeq(blob[1], at + 2, at + 1 + Len(name)) = name
    /\ blob[1][at + 2 + Len(name)] = 0

\* C8: get_credentials returns the credentials of all relying parties in one
\* sequence, relying parties in the order enumerated and the credentials of
\* each in the order enumerated; if the enumeration fails for a relying
\* party the call returns an error that names it, and no credentials.
C8_FlattenedInOrderOrError ==
  (op = "get_credentials" /\ dev.create /\ dev.rps_ok) =>
    IF \A i \in 1..Len(dev.rps) : dev.creds[i].ok
    THEN /\ result.ok
         /\ result.value =
              Flatten([i \in 1..Len(dev.rps) |->
                 [k \in 1..Len(dev.creds[i].creds) |->
                    [credential_id |-> HexEncode(dev.creds[i].creds[k].id),
                     rp_id |-> dev.rps[i].id, rp_name |-> dev.rps[i].name,
                     user_name |-> dev.creds[i].creds[k].user_name,
                     user_display_name |-> dev.creds[i].creds[k].user_display_name,
                     user_id |-> HexEncode(dev.creds[i].creds[k].user_id)]]])
    ELSE /\ ~result.ok
         /\ "value" \notin DOMAIN result
         /\ \E i \in 1..Len(dev.rps) :
              /\ ~dev.creds[i].ok
              /\ \A j \in 1..(i - 1) : dev.creds[j].ok
              /\ result = Err("Failed to enumerate credentials for RP", dev.rps[i].id)

C8_Witness ==
  /\ op = "get_credentials" /\ result.ok
  /\ Len(dev.rps) = 2
  /\ Len(dev.creds[1].creds) = 1 /\ Len(dev.creds[2].creds) = 2
  /\ Len(result.value) = 3
  /\ result.value[1].rp_id = dev.rps[1].id
  /\ result.value[3].rp_id = dev.rps[2].id
  /\ result.value[1].credential_id = <<"d","e","a","d">>

\* C9: a run of read_device_details sends GetInfo, then Memory/GetStats, then
\* PhysicalOptions/GetOptions, each at most once: what it has sent is the
\* beginning of that list, the whole list when the call returns Ok, and an
\* exchange that failed is not sent again.
C9_ExchangesInOrderOnce ==
  op = "read_device_details" =>
    /\ Len(Sends) <= 3
    /\ Sends = SubSeq(Exchanges, 1, Len(Sends))
    /\ result.ok => Sends = Exchanges

C9_Witness ==
  /\ op = "read_device_details" /\ result.ok
  /\ dev.mem.st = "err" /\ dev.phy.st = "err"
  /\ Sends = Exchanges

\* C10 as stated: every operation opens exactly one device handle, and when
\* it has returned no handle is open.
C10_ExactlyOneHandle ==
  /\ pc = "returned" => Len(Attempts) = 1
  /\ pc = "returned" => openHandles = 0

\* C10 amended: every operation connects to the device at most once: once,
\* unless write_config has rejected its vid and pid, which returns before
\* it connects; nothing is sent to the device before the operation's own
\* connection is open; and when the operation has returned, with Ok or with
\* an error, no handle is open, so none is carried over to the next one.
C10_AtMostOneHandleReleased ==
  /\ openHandles = 0
  /\ pc = "returned" =>
       /\ Len(Attempts) <= 1
       /\ Len(Attempts) = 0 <=> (op = "write_config" /\ result.ok = FALSE
                                  /\ result.kind = "Io")
       /\ Len(io) > 1 => io[1] \in {<<"open", "ok">>, <<"create", "ok">>}
       /\ \A i \in 2..Len(io) : io[i][1] \notin {"open", "create"}

C10_Witness ==
  /\ pc = "returned" /\ op = "delete_credential" /\ ~result.ok
  /\ io[1] = <<"create", "ok">>
  /\ openHandles = 0

Init ==
  /\ pc = "idle"
  /\ op = "none"
  /\ args = None
  /\ dev = None
  /\ result = None
  /\ io = <<>>
  /\ blob = None
  /\ openHandles = 0

Next ==
  \/ ReadDeviceDetails
  \/ WriteConfig
  \/ GetCredentials
  \/ DeleteCredential
  \/ Return

Spec == Init /\ [][Next]_vars

====
